---- MODULE Spec2Model ----
(***************************************************************************)
(* rusty-hog, git_scanning/gitrepo.rs.                                     *)
(*                                                                         *)
(* Two operations of GitScanner are modelled:                              *)
(*   perform_scan   (specification Spec):    the walk over the commits,    *)
(*                  the per-line callback of diff.print and the HashSet    *)
(*                  of GitFinding it fills;                                *)
(*   init_git_repo  (specification LocSpec): the scheme dispatch and the   *)
(*                  open / clone calls it makes.                           *)
(*                                                                         *)
(* perform_scan is run for both values of scan_entropy side by side on the *)
(* same repository: findings[e], status[e] are the accumulator and the     *)
(* fate of the run with scan_entropy = e.  The repository is produced as   *)
(* the walk consumes it: the revwalk yields the next commit, diff.print    *)
(* the next line.                                                          *)
(*                                                                         *)
(* Strings are sequences: of byte values for line content and decoded      *)
(* text, of tokens for the path given to init_git_repo.                    *)
(***************************************************************************)
EXTENDS Integers, Sequences, FiniteSets, TLC

\* ------------------------------------------------------------------ bounds
MaxCommits == 2      \* commits the revwalk yields
MaxLines == 2        \* lines diff.print yields over the whole walk
MaxLineLen == 2      \* bytes of one diff line

\* ---------------------------------------------------------- input domains
\* 'A', 'B', and a byte that is not ASCII
Bytes == {65, 66, 200}

Lines == UNION {[1..n -> Bytes] : n \in 0..MaxLineLen}

\* Option::None of a byte string
None == <<-1>>

\* delta.new_file().path(): absent, a UTF-8 path, a path that is not UTF-8
DeltaPaths == {None, <<97>>, <<200>>}

\* git2::Time is (seconds since the epoch, offset in minutes)
Times == [seconds : {-1, 0}, offset : {-60, 0}]

\* commit.message(): None when the message is not UTF-8
Messages == {None, <<109>>}

Bool == {FALSE, TRUE}

\* A pattern of the catalogue is first rest* over byte classes: matching is
\* byte-oriented, so a class may hold a byte that is not ASCII.
Catalogue ==
    [k \in {"AWS API Key", "Entropy"} |->
        IF k = "AWS API Key" THEN [first |-> {65, 66}, rest |-> {200}]
                             ELSE [first |-> {66}, rest |-> {}]]

PatternSets == {{"AWS API Key"}, {"AWS API Key", "Entropy"}}

VARIABLES
    focus,           \* which inputs of the run vary: "walk" or "lines"
    patterns,        \* secret_scanner's pattern set: the reasons it holds
    since_commit,    \* the argument: "none", or a revspec that is "bad" or a "rev"
    since_time_obj,  \* the cutoff Time
    pc,              \* "start", "revwalk", "diff", "done"
    commit,          \* the commit of the current loop iteration
    nlines,          \* lines yielded so far
    walked,          \* the commits the revwalk has yielded, before the filter
    scanned,         \* ids of the commits whose diff was produced, in order
    findings,        \* [scan_entropy -> the HashSet<GitFinding>]
    emitted,         \* [scan_entropy -> every GitFinding handed to insert]
    regexFindings,   \* [scan_entropy -> those handed over by the pattern loop]
    ninserted,       \* [scan_entropy -> the number of calls of findings.insert]
    status,          \* [scan_entropy -> "running" or the panic that ended it]
    lpath,           \* init_git_repo: path
    sshkeypath,      \* init_git_repo: sshkeypath
    lpc,             \* init_git_repo: "parse", "dispatch", "fallback", "done", "panic"
    scheme,          \* init_git_repo: the GitScheme
    repo,            \* self.repo
    calls            \* the calls init_git_repo made to git2, in order

scanVars == <<focus, patterns, since_commit, since_time_obj, pc, commit, nlines,
              walked, scanned, findings, emitted, regexFindings, ninserted, status>>
locVars == <<lpath, sshkeypath, lpc, scheme, repo, calls>>
vars == <<scanVars, locVars>>

\* ------------------------------------------------------------ pure helpers
\* ASCII.decode(bytes, DecoderTrap::Ignore): every byte that is not ASCII is
\* dropped and decoding goes on, so the result is always Ok.
IsAscii(b) == b < 128

AsciiDecode(bytes) == SelectSeq(bytes, IsAscii)

\* the slice taken one byte late
SliceFromNext(line, start, end) == SubSeq(line, start + 2, end)

\* &new_line[start..end]: start and end are 0-based, end is exclusive
Slice(line, start, end) == SubSeq(line, start + 1, end)

\* end of the greedy run of bytes of class rest that starts at 0-based j
RECURSIVE RunEnd(_, _, _)
RunEnd(rest, line, j) ==
    IF j < Len(line) /\ line[j + 1] \in rest THEN RunEnd(rest, line, j + 1) ELSE j

\* regex::bytes::Matches: the leftmost, non-overlapping matches from 0-based i on
RECURSIVE MatchesFrom(_, _, _)
MatchesFrom(p, line, i) ==
    IF i >= Len(line) THEN <<>>
    ELSE IF line[i + 1] \in p.first
         THEN LET j == RunEnd(p.rest, line, i + 1)
              IN  <<[start |-> i, end |-> j]>> \o MatchesFrom(p, line, j)
         ELSE MatchesFrom(p, line, i + 1)

\* SecretScanner::get_matches: reason -> match iterator, for every pattern
get_matches(pats, line) == [r \in pats |-> MatchesFrom(Catalogue[r], line, 0)]

\* BTreeMap iterates its keys in ascending order
ReasonOrder == <<"AWS API Key", "Entropy">>

SortedReasons(pats) == SelectSeq(ReasonOrder, LAMBDA r : r \in pats)

\* Entropy Analyzer: whitespace-delimited tokens
Whitespace == {32}

RECURSIVE Tokens(_, _)
Tokens(line, cur) ==
    IF line = <<>> THEN (IF cur = <<>> THEN <<>> ELSE <<cur>>)
    ELSE IF Head(line) \in Whitespace
         THEN (IF cur = <<>> THEN <<>> ELSE <<cur>>) \o Tokens(Tail(line), <<>>)
         ELSE Tokens(Tail(line), Append(cur, Head(line)))

Base64Alphabet == {65, 66}

\* thresholds of the Entropy Analyzer, scaled to the lines of the model: the
\* minimum token length, and the entropy bar as a number of distinct symbols
MinTokenLen == 2
EntropyBar == 1

HighEntropy(tok) ==
    /\ Len(tok) >= MinTokenLen
    /\ \A i \in 1..Len(tok) : tok[i] \in Base64Alphabet
    /\ Cardinality({tok[i] : i \in 1..Len(tok)}) > EntropyBar

\* SecretScanner::get_entropy_findings: the qualifying tokens, in order
get_entropy_findings(line) == SelectSeq(Tokens(line, <<>>), HighEntropy)

\* Oid::to_string: the id in hexadecimal (two digits stand for the forty)
HexDigit(n) == <<"0", "1", "2", "3", "4", "5", "6", "7",
                 "8", "9", "a", "b", "c", "d", "e", "f">>[n + 1]

OidToString(id) == <<HexDigit((id \div 16) % 16), HexDigit(id % 16)>>

\* NaiveDateTime::from_timestamp(secs, 0).to_string(): the proleptic Gregorian
\* date and the time of day of secs, with no offset applied
FormatDate(secs) ==
    LET days == secs \div 86400
        sod == secs % 86400
        z == days + 719468
        era == z \div 146097
        doe == z - era * 146097
        yoe == (doe - doe \div 1460 + doe \div 36524 - doe \div 146096) \div 365
        doy == doe - (365 * yoe + yoe \div 4 - yoe \div 100)
        mp == (5 * doy + 2) \div 153
        d == doy - (153 * mp + 2) \div 5 + 1
        m == IF mp < 10 THEN mp + 3 ELSE mp - 9
        y == yoe + era * 400 + (IF m <= 2 THEN 1 ELSE 0)
    IN  <<y, m, d, sod \div 3600, (sod % 3600) \div 60, sod % 60>>

\* Ord for git2::Time, used by >= in the filter: (time, offset) compared
\* lexicographically
TimeGE(a, b) ==
    \/ a.seconds > b.seconds
    \/ a.seconds = b.seconds /\ a.offset >= b.offset

\* the filter with > for >=
PassesFilterStrict(c, since) == ~TimeGE(since, c.time)

\* revwalk's filter closure
PassesFilter(c, since) == TimeGE(c.time, since)

\* the merge test off by one
IsSkippedTwoOrMore(c) == c.parents > 2

\* if commit.parents().len() > 1 { continue; }
IsSkipped(c) == c.parents > 1

\* an equality that leaves commit_hash out
GitFindingEqNoHash(a, b) ==
    /\ a.commit = b.commit
    /\ a.date = b.date
    /\ a.diff = b.diff
    /\ a.strings_found = b.strings_found
    /\ a.path = b.path
    /\ a.reason = b.reason

\* #[derive(PartialEq, Eq, Hash)] on GitFinding: field by field
GitFindingEq(a, b) ==
    /\ a.commit = b.commit
    /\ a.commit_hash = b.commit_hash
    /\ a.date = b.date
    /\ a.diff = b.diff
    /\ a.strings_found = b.strings_found
    /\ a.path = b.path
    /\ a.reason = b.reason

\* HashSet::insert: the value is added unless an equal one is present
HashSetInsert(set, f) ==
    IF \E g \in set : GitFindingEq(f, g) THEN set ELSE set \cup {f}

RECURSIVE InsertAll(_, _)
InsertAll(set, fs) ==
    IF fs = <<>> THEN set ELSE InsertAll(HashSetInsert(set, Head(fs)), Tail(fs))

Range(seq) == {seq[i] : i \in 1..Len(seq)}

\* ------------------------------------------------- the diff.print callback
\* secrets: the decoded bytes of every match of one reason, in match order
Secrets(line, ms) ==
    [i \in 1..Len(ms) |-> AsciiDecode(Slice(line, ms[i].start, ms[i].end))]

\* the guard left out
SecretsGuardAlways(secrets) == TRUE

\* if !secrets.is_empty()
SecretsGuard(secrets) == secrets # <<>>

\* if !ef.is_empty()
EntropyGuard(ef) == ef # <<>>

\* the (reason, secrets) pairs of the pattern loop that reach findings.insert
RECURSIVE RegexCandidates(_, _, _)
RegexCandidates(mm, reasons, line) ==
    IF reasons = <<>> THEN <<>>
    ELSE LET reason == Head(reasons)
             secrets == Secrets(line, mm[reason])
         IN  (IF SecretsGuard(secrets)
              THEN <<[reason |-> reason, strings_found |-> secrets, regex |-> TRUE]>>
              ELSE <<>>)
             \o RegexCandidates(mm, Tail(reasons), line)

\* the entropy block entered whatever scan_entropy is
EntropyCandidatesAlways(scan_entropy, line) ==
    LET ef == get_entropy_findings(line)
    IN  IF EntropyGuard(ef)
        THEN <<[reason |-> "Entropy", strings_found |-> ef, regex |-> FALSE]>>
        ELSE <<>>

\* the entropy block, entered only if scan_entropy
EntropyCandidates(scan_entropy, line) ==
    IF scan_entropy
    THEN LET ef == get_entropy_findings(line)
         IN  IF EntropyGuard(ef)
             THEN <<[reason |-> "Entropy", strings_found |-> ef, regex |-> FALSE]>>
             ELSE <<>>
    ELSE <<>>

Candidates(pats, scan_entropy, line) ==
    RegexCandidates(get_matches(pats, line), SortedReasons(pats), line)
        \o EntropyCandidates(scan_entropy, line)

ValidUtf8(bytes) == \A i \in 1..Len(bytes) : IsAscii(bytes[i])

\* the unwraps met while a GitFinding is built: commit.message().unwrap(),
\* then delta.new_file().path().unwrap(), then .to_str().unwrap()
ConstructPanic(c, path) ==
    IF c.message = None THEN "panic: message"
    ELSE IF path = None THEN "panic: path"
    ELSE IF ~ValidUtf8(path) THEN "panic: to_str"
    ELSE "running"

GitFinding(c, path, line, cand) ==
    [commit_hash   |-> OidToString(c.id),
     commit        |-> c.message,
     diff          |-> AsciiDecode(line),
     date          |-> FormatDate(c.time.seconds),
     strings_found |-> cand.strings_found,
     path          |-> path,
     reason        |-> cand.reason]

\* one call of the closure given to diff.print: the findings it hands to
\* findings.insert, in order, or the panic that ends the run
Callback(pats, scan_entropy, c, path, line) ==
    LET cands == Candidates(pats, scan_entropy, line)
        fate == IF cands = <<>> THEN "running" ELSE ConstructPanic(c, path)
    IN  [status |-> fate,
         all    |-> IF fate = "running"
                    THEN [i \in 1..Len(cands) |-> GitFinding(c, path, line, cands[i])]
                    ELSE <<>>,
         regex  |-> IF fate = "running"
                    THEN {GitFinding(c, path, line, cands[i]) :
                             i \in {j \in 1..Len(cands) : cands[j].regex}}
                    ELSE {}]

\* ------------------------------------------------------------ perform_scan
Epoch == [seconds |-> 0, offset |-> 0]

NoCommit == [id |-> 0, parents |-> 0, time |-> Epoch, message |-> None]

\* The inputs of a run are drawn from one of two domains.  With focus "walk"
\* the commits vary in parents and time and the lines are short; with focus
\* "lines" the lines, paths and messages vary and the commits share one time.
TimesOf(f) == IF f = "walk" THEN Times ELSE {Epoch}
ParentsOf(f) == IF f = "walk" THEN 0..2 ELSE 0..1
MessagesOf(f) == IF f = "walk" THEN {<<109>>} ELSE Messages
PathsOf(f) == IF f = "walk" THEN {<<97>>} ELSE DeltaPaths
LinesOf(f) == IF f = "walk" THEN {l \in Lines : Len(l) <= 1} ELSE Lines

Running(e) == status[e] = "running"

ScanInit ==
    /\ focus \in {"walk", "lines"}
    /\ patterns \in PatternSets
    /\ since_commit \in {"none", "bad", "rev"}
    /\ since_time_obj = Epoch
    /\ pc = "start"
    /\ commit = NoCommit
    /\ nlines = 0
    /\ walked = {}
    /\ scanned = <<>>
    /\ findings = [e \in Bool |-> {}]
    /\ emitted = [e \in Bool |-> {}]
    /\ regexFindings = [e \in Bool |-> {}]
    /\ ninserted = [e \in Bool |-> 0]
    /\ status = [e \in Bool |-> "running"]

\* perform_scan not called
ScanIdle ==
    /\ focus = "walk"
    /\ patterns = {}
    /\ since_commit = "none"
    /\ since_time_obj = Epoch
    /\ pc = "idle"
    /\ commit = NoCommit
    /\ nlines = 0
    /\ walked = {}
    /\ scanned = <<>>
    /\ findings = [e \in Bool |-> {}]
    /\ emitted = [e \in Bool |-> {}]
    /\ regexFindings = [e \in Bool |-> {}]
    /\ ninserted = [e \in Bool |-> 0]
    /\ status = [e \in Bool |-> "running"]

\* since_commit is None: Time::new(0, 0)
NoSince ==
    /\ pc = "start" /\ since_commit = "none"
    /\ pc' = "revwalk"
    /\ since_time_obj' = Epoch
    /\ UNCHANGED locVars
    /\ UNCHANGED <<focus, patterns, since_commit, commit, nlines, walked, scanned,
                   findings, emitted, regexFindings, ninserted, status>>

\* repo.revparse(since_commit) is Ok: the time of the commit it names
ResolveSince ==
    /\ pc = "start" /\ since_commit = "rev"
    /\ \E t \in TimesOf(focus) : since_time_obj' = t
    /\ pc' = "revwalk"
    /\ UNCHANGED locVars
    /\ UNCHANGED <<focus, patterns, since_commit, commit, nlines, walked, scanned,
                   findings, emitted, regexFindings, ninserted, status>>

\* repo.revparse(since_commit) is Err: panic
ResolveFail ==
    /\ pc = "start" /\ since_commit = "bad"
    /\ status' = [e \in Bool |-> "panic: revparse"]
    /\ UNCHANGED locVars
    /\ UNCHANGED <<focus, patterns, since_commit, since_time_obj, pc, commit, nlines,
                   walked, scanned, findings, emitted,
                   regexFindings, ninserted>>

\* the commits the revwalk can yield next: a commit is yielded once, here
\* under the next free id
NextCommits ==
    [id : {Cardinality(walked) + 1}, parents : ParentsOf(focus), time : TimesOf(focus),
     message : MessagesOf(focus)]

Walking ==
    /\ pc = "revwalk"
    /\ \E e \in Bool : Running(e)
    /\ Cardinality(walked) < MaxCommits

Seen(c) == [id |-> c.id, parents |-> c.parents, time |-> c.time]

Yield(c) == walked' = walked \cup {Seen(c)}

\* .filter(|c| c.time() >= since_time_obj) drops the commit
FilterDrop ==
    /\ Walking
    /\ \E c \in NextCommits :
          /\ ~PassesFilter(c, since_time_obj)
          /\ Yield(c)
    /\ UNCHANGED locVars
    /\ UNCHANGED <<focus, patterns, since_commit, since_time_obj, pc, commit, nlines,
                   scanned, findings, emitted, regexFindings, ninserted, status>>

\* if commit.parents().len() > 1 { continue; }
SkipMerge ==
    /\ Walking
    /\ \E c \in NextCommits :
          /\ PassesFilter(c, since_time_obj)
          /\ IsSkipped(c)
          /\ Yield(c)
    /\ UNCHANGED locVars
    /\ UNCHANGED <<focus, patterns, since_commit, since_time_obj, pc, commit, nlines,
                   scanned, findings, emitted, regexFindings, ninserted, status>>

\* the trees are read and repo.diff_tree_to_tree is Ok
ProduceDiff ==
    /\ Walking
    /\ \E c \in NextCommits :
          /\ PassesFilter(c, since_time_obj)
          /\ ~IsSkipped(c)
          /\ Yield(c)
          /\ commit' = c
          /\ scanned' = Append(scanned, c.id)
    /\ pc' = "diff"
    /\ UNCHANGED locVars
    /\ UNCHANGED <<focus, patterns, since_commit, since_time_obj, nlines,
                   findings, emitted, regexFindings, ninserted, status>>

\* a tree is missing or diff_tree_to_tree is Err: the unwrap panics
DiffFail ==
    /\ Walking
    /\ \E c \in NextCommits :
          /\ PassesFilter(c, since_time_obj)
          /\ ~IsSkipped(c)
    /\ status' = [e \in Bool |-> IF Running(e) THEN "panic: tree" ELSE status[e]]
    /\ UNCHANGED locVars
    /\ UNCHANGED <<focus, patterns, since_commit, since_time_obj, pc, commit, nlines,
                   walked, scanned, findings, emitted, regexFindings, ninserted>>

\* diff.print calls the closure on the next line of the patch
DiffLine ==
    /\ pc = "diff"
    /\ \E e \in Bool : Running(e)
    /\ nlines < MaxLines
    /\ \E path \in PathsOf(focus), line \in LinesOf(focus) :
         LET out == [e \in Bool |-> Callback(patterns, e, commit, path, line)]
         IN  /\ findings' = [e \in Bool |->
                    IF Running(e) THEN InsertAll(findings[e], out[e].all)
                    ELSE findings[e]]
             /\ emitted' = [e \in Bool |->
                    IF Running(e) THEN emitted[e] \cup Range(out[e].all)
                    ELSE emitted[e]]
             /\ regexFindings' = [e \in Bool |->
                    IF Running(e) THEN regexFindings[e] \cup out[e].regex
                    ELSE regexFindings[e]]
             /\ ninserted' = [e \in Bool |->
                    IF Running(e) THEN ninserted[e] + Len(out[e].all)
                    ELSE ninserted[e]]
             /\ status' = [e \in Bool |->
                    IF Running(e) THEN out[e].status ELSE status[e]]
    /\ nlines' = nlines + 1
    /\ UNCHANGED locVars
    /\ UNCHANGED <<focus, patterns, since_commit, since_time_obj, pc, commit,
                   walked, scanned>>

\* diff.print has no more lines: the next iteration of the loop
DiffEnd ==
    /\ pc = "diff"
    /\ \E e \in Bool : Running(e)
    /\ pc' = "revwalk"
    /\ commit' = NoCommit
    /\ UNCHANGED locVars
    /\ UNCHANGED <<focus, patterns, since_commit, since_time_obj, nlines, walked,
                   scanned, findings, emitted, regexFindings, ninserted, status>>

\* the revwalk is exhausted: perform_scan returns findings
Return ==
    /\ pc = "revwalk"
    /\ \E e \in Bool : Running(e)
    /\ pc' = "done"
    /\ UNCHANGED locVars
    /\ UNCHANGED <<focus, patterns, since_commit, since_time_obj, commit, nlines,
                   walked, scanned, findings, emitted,
                   regexFindings, ninserted, status>>

Returned(e) == pc = "done" /\ Running(e)

\* ------------------------------------------------- perform_scan: claims
\* s occurs in t as a run of adjacent elements
IsSubstring(sub, t) ==
    \E i \in 0..(Len(t) - Len(sub)) : SubSeq(t, i + 1, i + Len(sub)) = sub

\* C1: no finding of either run carries the hash of a commit with more than
\* one parent, and no diff is produced for such a commit.
C1_NoFindingOfAMerge ==
    /\ \A e \in Bool : \A f \in findings[e] : \A c \in walked :
          c.parents > 1 => f.commit_hash # OidToString(c.id)
    /\ \A c \in walked : c.parents > 1 => c.id \notin Range(scanned)
    /\ pc = "diff" => commit.parents <= 1

\* C1 witness: a merge that passed the filter was skipped, and a commit
\* walked after it was scanned and has a finding in the returned set.
C1_Witness ==
    \E m \in walked, c \in walked, e \in Bool :
        /\ Returned(e)
        /\ m.parents > 1 /\ m.id < c.id
        /\ (m.time.seconds > since_time_obj.seconds
            \/ (m.time.seconds = since_time_obj.seconds
                /\ m.time.offset >= since_time_obj.offset))
        /\ c.id \in Range(scanned)
        /\ \E f \in findings[e] : f.commit_hash = OidToString(c.id)

\* C2, as claimed: with since_commit resolved to time T, a run that returns
\* has scanned exactly the walked commits with at most one parent whose
\* committer time, in seconds, is at or after T, and no finding carries the
\* hash of a commit whose time is before T.
C2_ScansExactlyFromT ==
    \A e \in Bool :
        Returned(e) /\ since_commit = "rev" =>
            /\ Range(scanned) =
                  {c.id : c \in {w \in walked :
                      w.parents <= 1 /\ w.time.seconds >= since_time_obj.seconds}}
            /\ \A f \in findings[e] : \A c \in walked :
                  c.time.seconds < since_time_obj.seconds
                      => f.commit_hash # OidToString(c.id)

\* C2, amended: the same with the times compared as git2::Time compares
\* them, by the seconds first and by the offset second.
C2_ScansExactlyFromTAmended ==
    \A e \in Bool :
        Returned(e) /\ since_commit = "rev" =>
            /\ Range(scanned) =
                  {c.id : c \in {w \in walked :
                      /\ w.parents <= 1
                      /\ \/ w.time.seconds > since_time_obj.seconds
                         \/ /\ w.time.seconds = since_time_obj.seconds
                            /\ w.time.offset >= since_time_obj.offset}}
            /\ \A f \in findings[e] : \A c \in walked :
                  (\/ c.time.seconds < since_time_obj.seconds
                   \/ /\ c.time.seconds = since_time_obj.seconds
                      /\ c.time.offset < since_time_obj.offset)
                      => f.commit_hash # OidToString(c.id)

\* C2 witness: a run returned a finding of a commit whose time is T itself,
\* having walked a commit with one parent that the cutoff kept out.
C2_Witness ==
    \E e \in Bool, c \in walked, d \in walked :
        /\ Returned(e) /\ since_commit = "rev"
        /\ c.time = since_time_obj
        /\ \E f \in findings[e] : f.commit_hash = OidToString(c.id)
        /\ d.parents = 1 /\ d.id \notin Range(scanned)

\* C3, as claimed: when both runs return, the set of the run without entropy
\* is the set of the run with entropy less its findings of reason "Entropy",
\* and holds no finding of reason "Entropy".
C3_EntropyOffIsAFilter ==
    Returned(FALSE) /\ Returned(TRUE) =>
        /\ findings[FALSE] = {f \in findings[TRUE] : f.reason # "Entropy"}
        /\ \A f \in findings[FALSE] : f.reason # "Entropy"

\* C3, amended: the same, for a pattern set that has no pattern of the
\* reason "Entropy".
C3_EntropyOffIsAFilterAmended ==
    "Entropy" \notin patterns => C3_EntropyOffIsAFilter

\* C3 witness: both runs returned, no pattern is called "Entropy", the run
\* with entropy holds an "Entropy" finding and the other run holds a finding.
C3_Witness ==
    /\ Returned(FALSE) /\ Returned(TRUE)
    /\ "Entropy" \notin patterns
    /\ \E f \in findings[TRUE] : f.reason = "Entropy"
    /\ findings[FALSE] # {}

\* C5, as claimed: a line of a delta without a new-file path never ends a
\* run.
C5_NoPathNeverAborts ==
    \A e \in Bool : status[e] # "panic: path"

\* C6: every finding the pattern loop put in the set has a reason of the
\* pattern set, and there is a line whose decoding is its diff and whose
\* match ranges for that reason, decoded one by one with the bytes that are
\* not ASCII dropped, are its strings_found in order; each of them occurs in
\* diff as a run of adjacent characters.
C6_StringsAreDecodedMatches ==
    \A e \in Bool : \A f \in regexFindings[e] \cap findings[e] :
        /\ f.reason \in patterns
        /\ \E line \in Lines :
              LET ms == get_matches(patterns, line)[f.reason]
              IN  /\ f.diff = SelectSeq(line, LAMBDA b : b < 128)
                  /\ Len(f.strings_found) = Len(ms)
                  /\ \A i \in 1..Len(ms) :
                        f.strings_found[i] =
                            SelectSeq(SubSeq(line, ms[i].start + 1, ms[i].end),
                                      LAMBDA b : b < 128)
        /\ \A i \in 1..Len(f.strings_found) : IsSubstring(f.strings_found[i], f.diff)

\* C6 witness: a run returned a finding of a pattern with two different
\* strings, and a finding of a pattern whose match lost a byte in decoding
\* (with the pattern set {"AWS API Key"} a line decoding to "A" has a
\* finding with the one string "A", and of those only A followed by the byte
\* that is not ASCII leaves no entropy finding beside it).
C6_Witness ==
    \E e \in Bool : \E f \in regexFindings[e] \cap findings[e],
                       g \in regexFindings[e] \cap findings[e] :
        /\ Returned(e)
        /\ Len(f.strings_found) >= 2
        /\ f.strings_found[1] # f.strings_found[2]
        /\ g.diff = <<65>>
        /\ g.strings_found = <<(<<65>>)>>

\* C7: the accumulator is the set of all findings handed to insert, two of
\* them being one element exactly when the seven fields agree; it never
\* holds more elements than there were inserts.
C7_SetOfAllFindings ==
    \A e \in Bool :
        /\ findings[e] = emitted[e]
        /\ Cardinality(findings[e]) <= ninserted[e]

\* C7 witness: a returned set that absorbed a finding inserted a second time.
C7_Witness ==
    \E e \in Bool :
        /\ Returned(e)
        /\ findings[e] # {}
        /\ ninserted[e] > Cardinality(findings[e])

\* the same secret line in two commits: a returned set with two findings
\* that differ in commit_hash alone
C7_TwoCommits ==
    \E e \in Bool :
        /\ Returned(e)
        /\ \E f \in findings[e], g \in findings[e] :
              /\ f.commit_hash # g.commit_hash
              /\ [f EXCEPT !.commit_hash = g.commit_hash] = g

\* C8: in every state, every finding of either accumulator has at least one
\* element in strings_found.
C8_StringsFoundNotEmpty ==
    \A e \in Bool : \A f \in findings[e] : Len(f.strings_found) >= 1

\* C8 witness: an accumulator holding a finding of the entropy block and a
\* finding of the pattern loop, in a run whose second pattern matched nothing.
C8_Witness ==
    /\ patterns = {"AWS API Key", "Entropy"}
    /\ \E f \in findings[TRUE] : f.reason = "Entropy" /\ f \notin regexFindings[TRUE]
    /\ \E g \in regexFindings[TRUE] \cap findings[TRUE] : g.diff = <<65>>

\* C9, as claimed: without since_commit, a run that returns has scanned every
\* walked commit with at most one parent, each once.
C9_NoSinceScansAll ==
    \A e \in Bool :
        Returned(e) /\ since_commit = "none" =>
            /\ Range(scanned) = {c.id : c \in {w \in walked : w.parents <= 1}}
            /\ \A i \in 1..Len(scanned), j \in 1..Len(scanned) :
                  scanned[i] = scanned[j] => i = j

\* ----------------------------------------------------------- init_git_repo
MaxPathLen == 5      \* tokens of the path given to init_git_repo

Words == {"http", "https", "file", "ssh", "SSH", "git", "ftp", "bob"}
Seps == {"://", ":", "@", "/"}
PathTokens == Words \cup Seps

\* the paths of the model: words and separators in alternation
RECURSIVE Alternating(_)
Alternating(n) ==
    IF n = 0 THEN {<<>>}
    ELSE LET shorter == Alternating(n - 1)
             longest == {q \in shorter : Len(q) = n - 1}
             fits(q, t) == q = <<>> \/ ((q[Len(q)] \in Words) # (t \in Words))
         IN  shorter \cup
             {Append(x[1], x[2]) : x \in {y \in longest \X PathTokens : fits(y[1], y[2])}}

Paths == Alternating(MaxPathLen)

\* ---- Url::parse, as far as init_git_repo reads its result
SpecialSchemes == {"http", "https", "ftp", "file"}

\* the parser stores the scheme in lower case
Lower(w) == IF w = "SSH" THEN "ssh" ELSE w

\* index of the first token of q that is in set, 0 if there is none
FirstOf(q, set) ==
    IF \E i \in 1..Len(q) : q[i] \in set
    THEN CHOOSE i \in 1..Len(q) : q[i] \in set /\ \A j \in 1..(i - 1) : q[j] \notin set
    ELSE 0

LastOf(q, set) ==
    IF \E i \in 1..Len(q) : q[i] \in set
    THEN CHOOSE i \in 1..Len(q) : q[i] \in set /\ \A j \in (i + 1)..Len(q) : q[j] \notin set
    ELSE 0

Before(q, i) == IF i = 0 THEN q ELSE SubSeq(q, 1, i - 1)
After(q, i) == SubSeq(q, i + 1, Len(q))

\* an @ inside the user name is kept percent-encoded
PercentEncode(q) == [i \in 1..Len(q) |-> IF q[i] = "@" THEN "%40" ELSE q[i]]

UrlErr(e) == [ok |-> FALSE, err |-> e, scheme |-> "", username |-> <<>>]
UrlOk(sch, user) == [ok |-> TRUE, err |-> "", scheme |-> sch, username |-> user]

\* the authority: what follows "//" up to the next "/"
UrlAuthority(sch, authority) ==
    LET at == LastOf(authority, {"@"})
        userinfo == IF at = 0 THEN <<>> ELSE Before(authority, at)
        hostport == After(authority, at)
        host == Before(hostport, FirstOf(hostport, {":"}))
        port == IF FirstOf(hostport, {":"}) = 0 THEN <<>>
                ELSE After(hostport, FirstOf(hostport, {":"}))
        user == PercentEncode(Before(userinfo, FirstOf(userinfo, {":"})))
    IN  IF sch = "file"
        THEN (IF \E i \in 1..Len(authority) : authority[i] \in {"@", ":"}
              THEN UrlErr("InvalidDomainCharacter") ELSE UrlOk(sch, <<>>))
        ELSE IF port # <<>> THEN UrlErr("InvalidPort")
        ELSE IF host = <<>> /\ (sch \in SpecialSchemes \/ at # 0 \/ hostport # <<>>)
             THEN UrlErr("EmptyHost")
        ELSE UrlOk(sch, user)

UrlParse(q) ==
    IF ~(Len(q) >= 2 /\ q[1] \in Words /\ q[2] \in {"://", ":"})
    THEN UrlErr("RelativeUrlWithoutBase")
    ELSE LET sch == Lower(q[1])
             rest == After(q, 2)
             authority == Before(rest, FirstOf(rest, {"/", "://"}))
         IN  IF q[2] = "://" \/ (sch \in SpecialSchemes /\ sch # "file")
             THEN UrlAuthority(sch, authority)
             ELSE UrlOk(sch, <<>>)

\* ---- the calls init_git_repo makes
DestDir == <<"dest_dir">>

OpenCall(q) == [fn |-> "Repository::open", url |-> q, into |-> <<>>,
                username |-> <<>>, cred |-> "none"]

CloneCall(q) == [fn |-> "Repository::clone", url |-> q, into |-> DestDir,
                 username |-> <<>>, cred |-> "none"]

\* get_ssh_git_repo: the credentials callback and the clone that uses it
SshCloneCall(q, keypath, username) ==
    [fn |-> "RepoBuilder::clone", url |-> q, into |-> DestDir, username |-> username,
     cred |-> IF keypath # "none" THEN "Cred::ssh_key" ELSE "Cred::ssh_key_from_agent"]

\* GitScheme::Git: let username = match url.username() { "" => "git", s => s }
GitUsername(u) == IF u.username = <<>> THEN <<"git">> ELSE u.username

\* GitScheme::Ssh: let username = url.username()
SshUsername(u) == u.username

\* the user name cut at the last @
RelativeUsernameLastAt(q) ==
    LET i == LastOf(q, {"@"})
    IN  IF i # 0 THEN SubSeq(q, 1, i - 1) ELSE <<"git">>

\* GitScheme::Relativepath: match path.find('@') { Some(i) => path.split_at(i).0,
\* None => "git" }
RelativeUsername(q) ==
    LET i == FirstOf(q, {"@"})
    IN  IF i # 0 THEN SubSeq(q, 1, i - 1) ELSE <<"git">>

\* the scheme match of lines 217-254: a GitScheme, or the panic
SchemeOf(u) ==
    IF u.ok
    THEN CASE u.scheme = "http" -> "Http"
           [] u.scheme = "https" -> "Http"
           [] u.scheme = "file" -> "Localpath"
           [] u.scheme = "ssh" -> "Ssh"
           [] u.scheme = "git" -> "Git"
           [] OTHER -> "panic: please include the username"
    ELSE IF u.err = "RelativeUrlWithoutBase" THEN "Relativepath"
    ELSE "panic: unknown error parsing GITPATH"

NoRepo == [kind |-> "none", at |-> <<>>]
Opened(q) == [kind |-> "opened", at |-> q]
Cloned == [kind |-> "cloned", at |-> DestDir]

LocIdle ==
    /\ lpath = <<>>
    /\ sshkeypath = "none"
    /\ lpc = "idle"
    /\ scheme = "none"
    /\ repo = NoRepo
    /\ calls = <<>>

LocInit ==
    /\ lpath \in Paths
    /\ sshkeypath \in {"none", "some"}
    /\ lpc = "parse"
    /\ scheme = "none"
    /\ repo = NoRepo
    /\ calls = <<>>

LocStart == LocInit /\ ScanIdle

\* let url = Url::parse(path); let scheme = match &url { ... }
ParseScheme ==
    /\ lpc = "parse"
    /\ LET sch == SchemeOf(UrlParse(lpath))
       IN  /\ scheme' = sch
           /\ lpc' = IF sch \in {"Http", "Localpath", "Ssh", "Git", "Relativepath"}
                     THEN "dispatch" ELSE "panic"
    /\ UNCHANGED <<lpath, sshkeypath, repo, calls>>
    /\ UNCHANGED scanVars

\* a clone call and its outcome: the repository, or the panic of the Err arm
Clone(call) ==
    /\ calls' = Append(calls, call)
    /\ \E ok \in Bool :
          /\ repo' = IF ok THEN Cloned ELSE NoRepo
          /\ lpc' = IF ok THEN "done" ELSE "panic"
    /\ UNCHANGED <<lpath, sshkeypath, scheme>>
    /\ UNCHANGED scanVars

\* GitScheme::Localpath => Repository::clone(path, dest_dir)
CloneLocal ==
    /\ lpc = "dispatch" /\ scheme = "Localpath"
    /\ Clone(CloneCall(lpath))

\* GitScheme::Http => Repository::clone(path, dest_dir)
CloneHttp ==
    /\ lpc = "dispatch" /\ scheme = "Http"
    /\ Clone(CloneCall(lpath))

\* GitScheme::Git => get_ssh_git_repo(.., username)
CloneGit ==
    /\ lpc = "dispatch" /\ scheme = "Git"
    /\ Clone(SshCloneCall(lpath, sshkeypath, GitUsername(UrlParse(lpath))))

\* GitScheme::Ssh => get_ssh_git_repo(.., username)
CloneSsh ==
    /\ lpc = "dispatch" /\ scheme = "Ssh"
    /\ Clone(SshCloneCall(lpath, sshkeypath, SshUsername(UrlParse(lpath))))

\* GitScheme::Relativepath => match Repository::open(path)
OpenRelative ==
    /\ lpc = "dispatch" /\ scheme = "Relativepath"
    /\ calls' = Append(calls, OpenCall(lpath))
    /\ \E ok \in Bool :
          /\ repo' = IF ok THEN Opened(lpath) ELSE NoRepo
          /\ lpc' = IF ok THEN "done" ELSE "fallback"
    /\ UNCHANGED <<lpath, sshkeypath, scheme>>
    /\ UNCHANGED scanVars

\* Err(_) => get_ssh_git_repo(.., username)
FallbackSsh ==
    /\ lpc = "fallback"
    /\ Clone(SshCloneCall(lpath, sshkeypath, RelativeUsername(lpath)))

LocNext ==
    \/ ParseScheme
    \/ CloneLocal
    \/ CloneHttp
    \/ CloneGit
    \/ CloneSsh
    \/ OpenRelative
    \/ FallbackSsh

LocSpec == LocStart /\ [][LocNext]_vars

\* ------------------------------------------------ init_git_repo: claims
\* C4, as claimed: for the schemes ssh and git alike, a clone is made over
\* SSH with the user name of the URL, or git when the URL has none.
C4_SshAndGitDefaultToGit ==
    scheme \in {"Ssh", "Git"} =>
        \A i \in 1..Len(calls) :
            /\ calls[i].fn = "RepoBuilder::clone"
            /\ calls[i].username =
                  (IF UrlParse(lpath).username = <<>> THEN <<"git">>
                   ELSE UrlParse(lpath).username)

\* C10: for a path that is a relative URL, the first call opens the path as
\* a local repository; if that succeeds the repository is the one at the
\* path and nothing is cloned; a clone follows only a failed open, over SSH
\* into the scratch directory, with the user name being what precedes the
\* first @ of the path, or git when the path has no @.
C10_LocalThenSsh ==
    scheme = "Relativepath" =>
        /\ Len(calls) <= 2
        /\ Len(calls) >= 1 => calls[1] = [fn |-> "Repository::open", url |-> lpath,
                                          into |-> <<>>, username |-> <<>>,
                                          cred |-> "none"]
        /\ lpc = "done" /\ Len(calls) = 1 => repo = [kind |-> "opened", at |-> lpath]
        /\ repo.kind = "opened" => Len(calls) = 1
        /\ lpc = "fallback" => Len(calls) = 1 /\ repo.kind = "none"
        /\ Len(calls) = 2 =>
              /\ calls[2].fn = "RepoBuilder::clone"
              /\ calls[2].url = lpath
              /\ calls[2].into = <<"dest_dir">>
              /\ repo.kind # "opened"
              /\ IF \E i \in 1..Len(lpath) : lpath[i] = "@"
                 THEN \E i \in 1..Len(lpath) :
                         /\ lpath[i] = "@"
                         /\ \A j \in 1..(i - 1) : lpath[j] # "@"
                         /\ calls[2].username = SubSeq(lpath, 1, i - 1)
                 ELSE calls[2].username = <<"git">>

\* C10 witness: the open failed and the clone that followed succeeded, for a
\* path with two @ whose user name is not git.
C10_Witness ==
    /\ scheme = "Relativepath"
    /\ lpc = "done"
    /\ Len(calls) = 2
    /\ repo.kind = "cloned"
    /\ Cardinality({i \in 1..Len(lpath) : lpath[i] = "@"}) = 2
    /\ calls[2].username = <<"bob">>

\* the local repository opened: no clone
C10_Opened ==
    /\ scheme = "Relativepath"
    /\ lpc = "done"
    /\ repo.kind = "opened"

Init == ScanInit /\ LocIdle

Next ==
    \/ NoSince
    \/ ResolveSince
    \/ ResolveFail
    \/ FilterDrop
    \/ SkipMerge
    \/ ProduceDiff
    \/ DiffFail
    \/ DiffLine
    \/ DiffEnd
    \/ Return

Spec == Init /\ [][Next]_vars

====
